---- MODULE Spec2Model ----
(***************************************************************************)
(* Page-replacement simulator (memory_model.py): five replacement policies *)
(* (FIFO, LRU, OPT, LINUX = Clock, LINUX_NG = active/inactive lists) run   *)
(* in lockstep over one instruction trace by PageManager.                  *)
(*                                                                         *)
(* Python objects are modelled as records; a method that assigns to self   *)
(* becomes an operator that returns the object after the call (together    *)
(* with the returned value where there is one).  A value that is used     *)
(* more than once is bound as the element of a one-element set, so that    *)
(* it is computed once.                                                    *)
(***************************************************************************)
EXTENDS Integers, Sequences, FiniteSets, TLC

\* ------------------------------------------------------------------ bounds
\* largest memory_blocks a PageManager is constructed with
MaxBlocks == 4
\* total_instructions a PageManager is constructed with (source default 2000)
TotalInstr == 2
\* per-process minimum sequence length (the source's 800, scaled down)
MinProcLen == 2
\* load_belady_sequence() is only taken while current_time is below this
\* (current_time is not reset by it and would grow without bound)
MaxTime == 2

\* longest per-process sequence handed to _interleave_sequences in
\* SpecInterleave
MaxSeqLen == 7

\* total_instructions of the single-process managers of SpecSingle
LongTotal == 6
\* largest memory_blocks of the single-process managers of SpecSingle
LongBlocks == 3

\* ------------------------------------------------------ program constants
\* Python's None where an integer (pid, page, slot index) is expected
None == -1
\* distance of a page that never occurs again (_get_opt_victim)
NeverUsed == 99999
\* time slice of the round-robin interleaving
burst_size == 5
\* an address is converted to a page number by addr // 10
PageSize == 10

\* first page of the cold range of a process
ColdBase == 50

AlgoNames == <<"FIFO", "LRU", "OPT", "LINUX", "LINUX_NG">>
AlgoSet == {AlgoNames[i] : i \in 1..Len(AlgoNames)}

\* an empty slot of AlgoState.memory (Python None)
NoFrame == [empty |-> TRUE]

\* the Belady fixture
BeladyPages == <<1, 2, 3, 4, 1, 2, 5, 1, 2, 3, 4, 5>>

\* (address, op) pairs the single-process generator draws from
\* (hot addresses 0..39, cold addresses 400..600)
SingleInsts == {<<5, "R">>, <<5, "W">>, <<400, "R">>}
\* (page * 10, op) pairs the per-process generator draws from
\* (hot pages 0..3, cold pages 50..59)
ProcInsts == {<<0, "W">>, <<10, "R">>}
\* the num_processes a multi-process PageManager is constructed with
ProcessCounts == {1, 2}

VARIABLES
    memory_blocks,      \* PageManager.memory_blocks
    total_instructions, \* PageManager.total_instructions
    mode,               \* PageManager.mode: "single", "multi" or "BELADY"
    num_processes,      \* PageManager.num_processes
    instructions,       \* PageManager.instructions: sequence of <<addr, op, pid>>
    current_inst_idx,   \* PageManager.current_inst_idx (0-based cursor)
    current_time,       \* PageManager.current_time
    view_algo_name,     \* PageManager.view_algo_name
    algos,              \* PageManager.algos: name -> AlgoState
    last_op,            \* the PageManager method called last
    ret                 \* what that call returned

vars == <<memory_blocks, total_instructions, mode, num_processes, instructions,
          current_inst_idx, current_time, view_algo_name, algos, last_op, ret>>

\* ---------------------------------------------------------------- helpers
\* Python's a // b and a % b for b > 0 and a >= 0
FloorDiv(a, b) == a \div b

Max(a, b) == IF a >= b THEN a ELSE b
Min(a, b) == IF a <= b THEN a ELSE b

\* slots are numbered 0..memory_blocks-1 in the source; slot i is memory[i+1]
Slots(a) == 0 .. (a.memory_blocks - 1)
Slot(a, i) == a.memory[i + 1]
Occupied(a) == {i \in Slots(a) : Slot(a, i) # NoFrame}

SetSlot(a, i, f) == [a EXCEPT !.memory[i + 1] = f]

\* the least element of a non-empty set of integers
Least(S) == CHOOSE x \in S : \A y \in S : x <= y

\* list.index(x) on a Python list of page numbers, -1 standing for ValueError
RECURSIVE IndexFrom(_, _, _)
IndexFrom(s, x, k) ==
    IF k > Len(s) THEN -1
    ELSE IF s[k] = x THEN k - 1
    ELSE IndexFrom(s, x, k + 1)
ListIndex(s, x) == IndexFrom(s, x, 1)

\* ------------------------------------------------------------- AlgoState
\* AlgoState.__init__
AlgoInit(name, blocks) ==
    [name |-> name,
     memory_blocks |-> blocks,
     memory |-> [i \in 1..blocks |-> NoFrame],
     miss_count |-> 0,
     total_count |-> 0,
     write_back_count |-> 0,
     load_counter |-> 0,
     clock_hand |-> 0]

\* min(frames, key=lambda x: x[key]) followed by self.memory.index(victim):
\* the first of the candidate slots with the least key, then the first
\* slot of the whole table holding an equal frame
MinSlotBy(a, cand, key) ==
    LET m == Least({Slot(a, i)[key] : i \in cand})
        first == Least({i \in cand : Slot(a, i)[key] = m})
        victim == Slot(a, first)
    IN  Least({i \in Slots(a) : Slot(a, i) = victim})

\* mutant of KeyLoadedAt: FIFO ordered by last use instead of load order
KeyLoadedAt_LastUse == "last_access"

\* the key of FIFO's min(...): lambda x: x['loaded_at']
KeyLoadedAt == "loaded_at"

\* mutant of KeyLastAccess: the least recently used taken to be the first loaded
KeyLastAccess_LoadOrder == "loaded_at"

\* the key of LRU's and LINUX_NG's min(...): lambda x: x['last_access']
KeyLastAccess == "last_access"

\* mutant of _balance_lists: the active list allowed half the table rounded up
_balance_lists_RoundsUp(a) ==
    LET active == {i \in Occupied(a) : Slot(a, i).is_active_list}
    IN  IF Cardinality(active) > FloorDiv(a.memory_blocks + 1, 2)
        THEN LET m == Least({Slot(a, i).last_access : i \in active})
                 v == Least({i \in active : Slot(a, i).last_access = m})
             IN  [a EXCEPT !.memory[v + 1].is_active_list = FALSE]
        ELSE a

\* AlgoState._balance_lists
_balance_lists(a) ==
    LET active == {i \in Occupied(a) : Slot(a, i).is_active_list}
    IN  IF Cardinality(active) > FloorDiv(a.memory_blocks, 2)
        THEN LET m == Least({Slot(a, i).last_access : i \in active})
                 v == Least({i \in active : Slot(a, i).last_access = m})
             IN  [a EXCEPT !.memory[v + 1].is_active_list = FALSE]
        ELSE a

\* AlgoState._get_opt_victim: scan of all slots, strict > keeps the first
RECURSIVE OptScan(_, _, _, _, _)
OptScan(a, future_pages, i, max_dist, victim_idx) ==
    IF i >= a.memory_blocks THEN victim_idx
    ELSE LET k == ListIndex(future_pages, Slot(a, i).page)
             dist == IF k = -1 THEN NeverUsed ELSE k
         IN  IF dist > max_dist
             THEN OptScan(a, future_pages, i + 1, dist, i)
             ELSE OptScan(a, future_pages, i + 1, max_dist, victim_idx)

\* future_pages is either a sequence of pages or NoFuture (Python None)
NoFuture == <<None>>

\* mutant of _get_opt_victim: the lookahead is not used, slot 0 is returned
\* as if none had been given
_get_opt_victim_NoLookahead(a, future_pages) == 0

_get_opt_victim(a, future_pages) ==
    IF future_pages = NoFuture THEN 0
    ELSE OptScan(a, future_pages, 0, -1, -1)

\* AlgoState._run_clock_algorithm: returns [idx, algo, found]; found tells
\* the return inside the loop from the one after it
RECURSIVE ClockScan(_, _, _, _)
ClockScan(a, temp_hand, n, dry_run) ==
    IF n = 0 THEN [idx |-> temp_hand, algo |-> a, found |-> FALSE]
    ELSE IF Slot(a, temp_hand).ref_bit = 1
    THEN ClockScan(IF dry_run THEN a
                   ELSE [a EXCEPT !.memory[temp_hand + 1].ref_bit = 0],
                   (temp_hand + 1) % a.memory_blocks, n - 1, dry_run)
    ELSE [idx |-> temp_hand,
          algo |-> IF dry_run THEN a
                   ELSE [a EXCEPT !.clock_hand = (temp_hand + 1) % a.memory_blocks],
          found |-> TRUE]

\* mutant of _run_clock_algorithm: the scan gives up after one lap
_run_clock_algorithm_OneLap(a, dry_run) ==
    ClockScan(a, a.clock_hand, a.memory_blocks, dry_run)

_run_clock_algorithm(a, dry_run) ==
    ClockScan(a, a.clock_hand, a.memory_blocks * 2 + 1, dry_run)

\* mutant of _get_victim: LINUX_NG takes the least recently used frame of
\* the whole table, active or not
_get_victim_IgnoresLists(a, future_pages) ==
    LET valid == Occupied(a)
    IN  IF valid = {} THEN [idx |-> 0, algo |-> a]
        ELSE IF a.name = "FIFO"
        THEN [idx |-> MinSlotBy(a, valid, KeyLoadedAt), algo |-> a]
        ELSE IF a.name = "LRU" \/ a.name = "LINUX_NG"
        THEN [idx |-> MinSlotBy(a, valid, KeyLastAccess), algo |-> a]
        ELSE IF a.name = "OPT"
        THEN [idx |-> _get_opt_victim(a, future_pages), algo |-> a]
        ELSE IF a.name = "LINUX"
        THEN _run_clock_algorithm(a, FALSE)
        ELSE [idx |-> 0, algo |-> a]

\* AlgoState._get_victim: returns [idx, algo]
_get_victim(a, future_pages) ==
    LET valid == Occupied(a)
    IN  IF valid = {} THEN [idx |-> 0, algo |-> a]
        ELSE IF a.name = "FIFO"
        THEN [idx |-> MinSlotBy(a, valid, KeyLoadedAt), algo |-> a]
        ELSE IF a.name = "LRU"
        THEN [idx |-> MinSlotBy(a, valid, KeyLastAccess), algo |-> a]
        ELSE IF a.name = "OPT"
        THEN [idx |-> _get_opt_victim(a, future_pages), algo |-> a]
        ELSE IF a.name = "LINUX"
        THEN _run_clock_algorithm(a, FALSE)
        ELSE IF a.name = "LINUX_NG"
        THEN LET inactive == {i \in valid : ~Slot(a, i).is_active_list}
                 pool == IF inactive # {} THEN inactive ELSE valid
             IN  [idx |-> MinSlotBy(a, pool, KeyLastAccess), algo |-> a]
        ELSE [idx |-> 0, algo |-> a]

\* mutant of _handle_hit: the dirty flag follows the latest access, so that a
\* read hit clears it
_handle_hit_ReadCleans(a, idx, op_type, current_time_, pid) ==
    LET a1 == [a EXCEPT !.memory[idx + 1].last_access = current_time_]
        a2 == IF a.name = "LINUX"
              THEN [a1 EXCEPT !.memory[idx + 1].ref_bit = 1]
              ELSE IF a.name = "LINUX_NG"
              THEN _balance_lists(
                       IF ~Slot(a1, idx).is_active_list
                       THEN [a1 EXCEPT !.memory[idx + 1].is_active_list = TRUE]
                       ELSE a1)
              ELSE a1
        a3 == [a2 EXCEPT !.memory[idx + 1].dirty = (op_type = "W")]
    IN  [algo |-> a3,
         res |-> [status |-> "Hit", swapped |-> None, swapped_pid |-> None,
                  is_write_back |-> FALSE]]

\* mutant of _handle_hit: a hit of Clock moves the hand past the frame hit
_handle_hit_MovesHand(a, idx, op_type, current_time_, pid) ==
    LET a1 == [a EXCEPT !.memory[idx + 1].last_access = current_time_]
        a2 == IF a.name = "LINUX"
              THEN [a1 EXCEPT !.memory[idx + 1].ref_bit = 1,
                              !.clock_hand = (idx + 1) % a.memory_blocks]
              ELSE IF a.name = "LINUX_NG"
              THEN _balance_lists(
                       IF ~Slot(a1, idx).is_active_list
                       THEN [a1 EXCEPT !.memory[idx + 1].is_active_list = TRUE]
                       ELSE a1)
              ELSE a1
        a3 == IF op_type = "W"
              THEN [a2 EXCEPT !.memory[idx + 1].dirty = TRUE]
              ELSE a2
    IN  [algo |-> a3,
         res |-> [status |-> "Hit", swapped |-> None, swapped_pid |-> None,
                  is_write_back |-> FALSE]]

\* AlgoState._handle_hit: returns [algo, res]
_handle_hit(a, idx, op_type, current_time_, pid) ==
    LET a1 == [a EXCEPT !.memory[idx + 1].last_access = current_time_]
        a2 == IF a.name = "LINUX"
              THEN [a1 EXCEPT !.memory[idx + 1].ref_bit = 1]
              ELSE IF a.name = "LINUX_NG"
              THEN _balance_lists(
                       IF ~Slot(a1, idx).is_active_list
                       THEN [a1 EXCEPT !.memory[idx + 1].is_active_list = TRUE]
                       ELSE a1)
              ELSE a1
        a3 == IF op_type = "W"
              THEN [a2 EXCEPT !.memory[idx + 1].dirty = TRUE]
              ELSE a2
    IN  [algo |-> a3,
         res |-> [status |-> "Hit", swapped |-> None, swapped_pid |-> None,
                  is_write_back |-> FALSE]]

\* mutant of NeedsWriteBack: every eviction counted as a write-back
NeedsWriteBack_Always(victim_frame) == TRUE

\* the write-back test of _handle_miss: victim_frame.get('dirty', False)
NeedsWriteBack(victim_frame) == victim_frame.dirty

\* the frame _handle_miss builds for the page being loaded
NewFrame(page_id, pid, loaded_at, current_time_, op_type) ==
    [page |-> page_id,
     pid |-> pid,
     loaded_at |-> loaded_at,
     last_access |-> current_time_,
     ref_bit |-> 1,
     dirty |-> (op_type = "W"),
     is_active_list |-> FALSE]

\* the slot _get_victim chose (gv), with "if victim_frame:" of _handle_miss
VictimTarget(gv) ==
    [idx |-> gv.idx, algo |-> gv.algo, evicts |-> Slot(gv.algo, gv.idx) # NoFrame]

\* mutant of MissTarget: a resident frame is replaced although a slot is free
MissTarget_EvictsWithFreeSlot(a, future_pages) ==
    LET free == {i \in Slots(a) : Slot(a, i) = NoFrame}
    IN  IF free # {} /\ Occupied(a) = {}
        THEN [idx |-> Least(free), algo |-> a, evicts |-> FALSE]
        ELSE IF free # {}
        THEN [idx |-> Least(Occupied(a)), algo |-> a, evicts |-> TRUE]
        ELSE CHOOSE t \in {VictimTarget(gv) : gv \in {_get_victim(a, future_pages)}} : TRUE

\* mutant of MissTarget: the last free slot is filled instead of the first
MissTarget_LastFree(a, future_pages) ==
    LET free == {i \in Slots(a) : Slot(a, i) = NoFrame}
    IN  IF free # {}
        THEN [idx |-> -Least({-i : i \in free}), algo |-> a, evicts |-> FALSE]
        ELSE CHOOSE t \in {VictimTarget(gv) : gv \in {_get_victim(a, future_pages)}} : TRUE

\* steps 1 and 2 of _handle_miss up to the choice of target_idx: the first
\* free slot, or else the victim; evicts tells whether the slot chosen
\* holds a frame that is replaced
MissTarget(a, future_pages) ==
    LET free == {i \in Slots(a) : Slot(a, i) = NoFrame}
    IN  IF free # {}
        THEN [idx |-> Least(free), algo |-> a, evicts |-> FALSE]
        ELSE CHOOSE t \in {VictimTarget(gv) : gv \in {_get_victim(a, future_pages)}} : TRUE

\* the rest of _handle_miss: write-back accounting, loading the frame,
\* moving the Clock hand; returns [algo, res]
PlaceFrame(tgt, new_frame) ==
    LET victim_frame == Slot(tgt.algo, tgt.idx)
        wb == tgt.evicts /\ NeedsWriteBack(victim_frame)
        a3 == IF wb THEN [tgt.algo EXCEPT !.write_back_count = @ + 1] ELSE tgt.algo
        a4 == SetSlot(a3, tgt.idx, new_frame)
        a5 == IF a4.name = "LINUX"
              THEN [a4 EXCEPT !.clock_hand = (tgt.idx + 1) % a4.memory_blocks]
              ELSE a4
    IN  [algo |-> a5,
         res |-> [status |-> "Miss",
                  swapped |-> IF tgt.evicts THEN victim_frame.page ELSE None,
                  swapped_pid |-> IF tgt.evicts THEN victim_frame.pid ELSE None,
                  is_write_back |-> wb]]

\* AlgoState._handle_miss: returns [algo, res]
_handle_miss(a, page_id, op_type, current_time_, future_pages, pid) ==
    CHOOSE r \in
        {PlaceFrame(tgt, NewFrame(page_id, pid, a.load_counter + 1, current_time_, op_type)) :
            tgt \in {MissTarget([a EXCEPT !.miss_count = @ + 1, !.load_counter = @ + 1],
                                future_pages)}} : TRUE

\* mutant of HitIdx: the owner is not compared
HitIdx_AnyOwner(a, page_id, pid) ==
    LET match == {i \in Occupied(a) : Slot(a, i).page = page_id}
    IN  IF match = {} THEN -1 ELSE Least(match)

\* mutant of HitIdx: the last slot is never looked at
HitIdx_SkipLast(a, page_id, pid) ==
    LET match == {i \in Occupied(a) :
                    /\ i < a.memory_blocks - 1
                    /\ Slot(a, i).page = page_id
                    /\ (pid = None \/ Slot(a, i).pid = pid)}
    IN  IF match = {} THEN -1 ELSE Least(match)

\* the lookup loop of AlgoState.process: first matching slot, or -1
HitIdx(a, page_id, pid) ==
    LET match == {i \in Occupied(a) :
                    /\ Slot(a, i).page = page_id
                    /\ (pid = None \/ Slot(a, i).pid = pid)}
    IN  IF match = {} THEN -1 ELSE Least(match)

\* AlgoState.process: returns [algo, res]
process(a, page_id, op_type, current_time_, future_pages, pid) ==
    LET a1 == [a EXCEPT !.total_count = @ + 1]
        hit_idx == HitIdx(a1, page_id, pid)
    IN  IF hit_idx # -1
        THEN _handle_hit(a1, hit_idx, op_type, current_time_, pid)
        ELSE _handle_miss(a1, page_id, op_type, current_time_, future_pages, pid)

\* the read-only Clock loop of predict_next_victim
RECURSIVE PredictScan(_, _, _)
PredictScan(a, temp_hand, n) ==
    IF n = 0 THEN temp_hand
    ELSE IF Slot(a, temp_hand).ref_bit = 0 THEN temp_hand
    ELSE PredictScan(a, (temp_hand + 1) % a.memory_blocks, n - 1)

\* mutant of predict_next_victim: Clock predicted by the real victim scan
predict_next_victim_RealScan(a, future_pages) ==
    IF \E i \in Slots(a) : Slot(a, i) = NoFrame
    THEN [idx |-> -1, algo |-> a]
    ELSE _get_victim(a, future_pages)

\* mutant of predict_next_victim: the read-only loop given the bound of the
\* real scan
predict_next_victim_ScanBound(a, future_pages) ==
    IF \E i \in Slots(a) : Slot(a, i) = NoFrame
    THEN [idx |-> -1, algo |-> a]
    ELSE IF a.name = "LINUX"
    THEN [idx |-> PredictScan(a, a.clock_hand, a.memory_blocks * 2 + 1), algo |-> a]
    ELSE _get_victim(a, future_pages)

\* AlgoState.predict_next_victim: returns [idx, algo]
predict_next_victim(a, future_pages) ==
    IF \E i \in Slots(a) : Slot(a, i) = NoFrame
    THEN [idx |-> -1, algo |-> a]
    ELSE IF a.name = "LINUX"
    THEN [idx |-> PredictScan(a, a.clock_hand, a.memory_blocks * 2), algo |-> a]
    ELSE _get_victim(a, future_pages)

\* mutant of MetaOf: the time of the last access shown instead of the idle time
MetaOf_Absolute(a, f, current_time_) ==
    IF f.dirty THEN [tag |-> "DIRTY", val |-> 0]
    ELSE IF a.name = "FIFO" THEN [tag |-> "SEQ", val |-> f.loaded_at]
    ELSE IF a.name = "LRU" THEN [tag |-> "IDLE", val |-> f.last_access]
    ELSE IF a.name = "LINUX" THEN [tag |-> "REF", val |-> f.ref_bit]
    ELSE IF a.name = "LINUX_NG"
    THEN [tag |-> IF f.is_active_list THEN "ACT" ELSE "INA", val |-> f.last_access]
    ELSE IF a.name = "OPT" THEN [tag |-> "OPT", val |-> 0]
    ELSE [tag |-> "", val |-> 0]

\* the meta text of a snapshot entry, as (tag, number): "SEQ:3" is
\* [tag |-> "SEQ", val |-> 3]; "OPT" and "DIRTY" carry no number
MetaOf(a, f, current_time_) ==
    IF f.dirty THEN [tag |-> "DIRTY", val |-> 0]
    ELSE IF a.name = "FIFO" THEN [tag |-> "SEQ", val |-> f.loaded_at]
    ELSE IF a.name = "LRU" THEN [tag |-> "IDLE", val |-> current_time_ - f.last_access]
    ELSE IF a.name = "LINUX" THEN [tag |-> "REF", val |-> f.ref_bit]
    ELSE IF a.name = "LINUX_NG"
    THEN [tag |-> IF f.is_active_list THEN "ACT" ELSE "INA",
          val |-> current_time_ - f.last_access]
    ELSE IF a.name = "OPT" THEN [tag |-> "OPT", val |-> 0]
    ELSE [tag |-> "", val |-> 0]

\* AlgoState.get_snapshot
get_snapshot(a, current_time_) ==
    [k \in 1..a.memory_blocks |->
        LET f == a.memory[k]
        IN  IF f = NoFrame THEN NoFrame
            ELSE [page |-> f.page,
                  pid |-> f.pid,
                  meta |-> MetaOf(a, f, current_time_),
                  is_hand |-> (a.name = "LINUX" /\ k - 1 = a.clock_hand),
                  is_dirty |-> f.dirty,
                  is_active_list |-> f.is_active_list]]

\* ----------------------------------------------------------- PageManager
\* the slice s[from:to] of a Python list (0-based, to exclusive)
Slice(s, from, to) ==
    [k \in 1..Max(0, Min(to, Len(s)) - from) |-> s[from + k]]

\* mutant of Burst: the time slice is one entry too long
Burst_OneTooLong(sequence, cycle, pid) ==
    LET end == Min(cycle + burst_size + 1, Len(sequence))
        part == Slice(sequence, cycle, end)
    IN  [k \in 1..Len(part) |-> <<part[k][1], part[k][2], pid>>]

\* one time slice of _interleave_sequences: sequence[start:end] tagged with pid
Burst(sequence, cycle, pid) ==
    LET end == Min(cycle + burst_size, Len(sequence))
        part == Slice(sequence, cycle, end)
    IN  [k \in 1..Len(part) |-> <<part[k][1], part[k][2], pid>>]

RECURSIVE InterleaveFrom(_, _, _, _, _)
InterleaveFrom(process_sequences, n, cycle, pid, max_length) ==
    IF cycle >= max_length THEN <<>>
    ELSE IF pid >= n
    THEN InterleaveFrom(process_sequences, n, cycle + burst_size, 0, max_length)
    ELSE Burst(process_sequences[pid], cycle, pid)
         \o InterleaveFrom(process_sequences, n, cycle, pid + 1, max_length)

\* PageManager._interleave_sequences
_interleave_sequences(process_sequences, n) ==
    LET lens == {Len(process_sequences[p]) : p \in 0..(n - 1)}
        max_length == CHOOSE x \in lens : \A y \in lens : y <= x
    IN  InterleaveFrom(process_sequences, n, 0, 0, max_length)

\* PageManager._generate_process_sequence: the sequences it can return
_generate_process_sequence(length) == [1..length -> ProcInsts]

\* mutant of _generate_multi_process_instructions: each process one entry short
_generate_multi_process_instructions_Short(total, n) ==
    LET length == Max(MinProcLen, FloorDiv(total, n)) - 1
    IN  {_interleave_sequences(ps, n) :
            ps \in [0..(n - 1) -> _generate_process_sequence(length)]}

\* PageManager._generate_multi_process_instructions: the traces it can return
_generate_multi_process_instructions(total, n) ==
    LET length == Max(MinProcLen, FloorDiv(total, n))
    IN  {_interleave_sequences(ps, n) :
            ps \in [0..(n - 1) -> _generate_process_sequence(length)]}

\* PageManager._generate_instructions: the traces it can return
_generate_instructions(m, total, n) ==
    IF m = "multi"
    THEN _generate_multi_process_instructions(total, n)
    ELSE {Slice(insts, 0, total) :
            insts \in [1..total -> {<<i[1], i[2], None>> : i \in SingleInsts}]}

\* the trace load_belady_sequence installs
BeladyInstructions == [k \in 1..Len(BeladyPages) |-> <<BeladyPages[k] * PageSize, "R", None>>]

\* PageManager.reset_algos
reset_algos(blocks) == [name \in AlgoSet |-> AlgoInit(name, blocks)]

NoneRet == [kind |-> "None"]

\* the pages of insts[from:] (future_pages in step)
FuturePages(insts, from) ==
    LET future_tuples == Slice(insts, from, Len(insts))
    IN  [k \in 1..Len(future_tuples) |-> FloorDiv(future_tuples[k][1], PageSize)]

\* mutant of FutureAt: the lookahead starts one instruction too late
FutureAt_SkipsNext(insts, idx, k) ==
    IF \E j \in 1..k : AlgoNames[j] = "OPT"
    THEN FuturePages(insts, idx + 2)
    ELSE NoFuture

\* future_pages as the k-th policy of the loop in step sees it: None until
\* the loop has reached OPT
FutureAt(insts, idx, k) ==
    IF \E j \in 1..k : AlgoNames[j] = "OPT"
    THEN FuturePages(insts, idx + 1)
    ELSE NoFuture

\* miss_count / total_count * 100, kept as the fraction it is computed from
MissRate(a) ==
    IF a.total_count > 0
    THEN [num |-> a.miss_count * 100, den |-> a.total_count]
    ELSE [num |-> 0, den |-> 1]

\* the position of a policy in the loop of step
AlgoPos(name) == CHOOSE k \in 1..Len(AlgoNames) : AlgoNames[k] = name

\* the loop of step over the policies: name -> [algo, res] of process()
RunAlgos(insts, idx, now, al) ==
    [name \in AlgoSet |->
        process(al[name], FloorDiv(insts[idx + 1][1], PageSize), insts[idx + 1][2],
                now, FutureAt(insts, idx, AlgoPos(name)), insts[idx + 1][3])]

\* step_results of step, from what the loop returned
StepResults(run) ==
    [name \in AlgoSet |->
        [status |-> run[name].res.status,
         swapped |-> run[name].res.swapped,
         swapped_pid |-> run[name].res.swapped_pid,
         is_write_back |-> run[name].res.is_write_back,
         miss_rate |-> MissRate(run[name].algo),
         miss_count |-> run[name].algo.miss_count,
         wb_count |-> run[name].algo.write_back_count]]

\* the report step returns, from what the loop and predict_next_victim returned
StepReport(instruction, idx, now, view, run, pred) ==
    [algos |-> [name \in AlgoSet |-> IF name = view THEN pred.algo ELSE run[name].algo],
     report |-> [kind |-> "report",
                 inst |-> instruction[1],
                 op |-> instruction[2],
                 page |-> FloorDiv(instruction[1], PageSize),
                 pid |-> instruction[3],
                 results |-> StepResults(run),
                 view_algo |-> view,
                 memory |-> get_snapshot(pred.algo, now),
                 next_victim |-> pred.idx,
                 current_step |-> idx + 1]]

\* the part of step after the loop: the prediction for the viewed policy
AfterLoop(insts, idx, now, view, run) ==
    CHOOSE r \in
        {StepReport(insts[idx + 1], idx, now, view, run, pred) :
            pred \in {predict_next_victim(run[view].algo,
                                          IF view = "OPT" THEN FuturePages(insts, idx + 1)
                                          ELSE NoFuture)}} : TRUE

\* the body of PageManager.step past the end-of-trace test, on a manager with
\* trace insts, cursor idx, clock time_, policies al and viewed policy view:
\* the policies after the step and the report returned
StepBody(insts, idx, time_, al, view) ==
    CHOOSE r \in
        {AfterLoop(insts, idx, time_ + 1, view, run) :
            run \in {RunAlgos(insts, idx, time_ + 1, al)}} : TRUE

\* the step the manager would take now if the policy named view were viewed
StepOutcome(view) ==
    StepBody(instructions, current_inst_idx, current_time, algos, view)

\* PageManager.__init__ (which ends in reset())
Init ==
    /\ memory_blocks \in 1..MaxBlocks
    /\ total_instructions = TotalInstr
    /\ mode \in {"single", "multi"}
    /\ num_processes \in (IF mode = "multi" THEN ProcessCounts ELSE {1})
    /\ instructions \in _generate_instructions(mode, total_instructions, num_processes)
    /\ current_inst_idx = 0
    /\ current_time = 0
    /\ view_algo_name = "FIFO"
    /\ algos = reset_algos(memory_blocks)
    /\ last_op = "__init__"
    /\ ret = NoneRet

\* PageManager.step with instructions left
StepRun ==
    /\ current_inst_idx < Len(instructions)
    /\ \E o \in {StepOutcome(view_algo_name)} :
          /\ algos' = o.algos
          /\ ret' = o.report
    /\ current_time' = current_time + 1
    /\ current_inst_idx' = current_inst_idx + 1
    /\ last_op' = "step"
    /\ UNCHANGED <<memory_blocks, total_instructions, mode, num_processes,
                   instructions, view_algo_name>>

\* mutant of StepEnd: the clock ticks before the end-of-trace test
StepEnd_Ticks ==
    /\ current_inst_idx >= Len(instructions)
    /\ current_time' = current_time + 1
    /\ ret' = NoneRet
    /\ last_op' = "step"
    /\ UNCHANGED <<memory_blocks, total_instructions, mode, num_processes,
                   instructions, current_inst_idx, view_algo_name, algos>>

\* PageManager.step at the end of the trace: returns None
StepEnd ==
    /\ current_inst_idx >= Len(instructions)
    /\ ret' = NoneRet
    /\ last_op' = "step"
    /\ UNCHANGED <<memory_blocks, total_instructions, mode, num_processes,
                   instructions, current_inst_idx, current_time, view_algo_name,
                   algos>>

step == StepRun \/ StepEnd

\* PageManager.reset
reset ==
    /\ current_inst_idx' = 0
    /\ current_time' = 0
    /\ view_algo_name' = "FIFO"
    /\ instructions' \in _generate_instructions(mode, total_instructions, num_processes)
    /\ algos' = reset_algos(memory_blocks)
    /\ last_op' = "reset"
    /\ ret' = NoneRet
    /\ UNCHANGED <<memory_blocks, total_instructions, mode, num_processes>>

\* mutant of load_belady_sequence: the policies are not re-initialised
load_belady_sequence_KeepAlgos ==
    /\ current_time < MaxTime
    /\ mode' = "BELADY"
    /\ instructions' = BeladyInstructions
    /\ current_inst_idx' = 0
    /\ last_op' = "load_belady_sequence"
    /\ ret' = NoneRet
    /\ UNCHANGED <<memory_blocks, total_instructions, num_processes, current_time,
                   view_algo_name, algos>>

\* PageManager.load_belady_sequence
load_belady_sequence ==
    /\ current_time < MaxTime
    /\ mode' = "BELADY"
    /\ instructions' = BeladyInstructions
    /\ current_inst_idx' = 0
    /\ algos' = reset_algos(memory_blocks)
    /\ last_op' = "load_belady_sequence"
    /\ ret' = NoneRet
    /\ UNCHANGED <<memory_blocks, total_instructions, num_processes, current_time,
                   view_algo_name>>

\* MemSimApp.set_view_algorithm: assigns PageManager.view_algo_name
set_view_algorithm ==
    /\ \E algo \in AlgoSet :
          /\ algo # view_algo_name
          /\ view_algo_name' = algo
    /\ UNCHANGED <<memory_blocks, total_instructions, mode, num_processes,
                   instructions, current_inst_idx, current_time, algos,
                   last_op, ret>>

Next == StepRun \/ StepEnd \/ reset \/ load_belady_sequence \/ set_view_algorithm

Spec == Init /\ [][Next]_vars

\* ------------------------------------- construction with any memory_blocks
\* PageManager.__init__ and AlgoState.__init__ test none of their arguments;
\* the memory_blocks below 1 a manager can be constructed with, next to 1
AnyBlocks == -1 .. 1

\* PageManager.__init__ called with any of these memory_blocks
InitAnyBlocks ==
    /\ memory_blocks \in AnyBlocks
    /\ total_instructions = TotalInstr
    /\ mode \in {"single", "multi"}
    /\ num_processes \in (IF mode = "multi" THEN ProcessCounts ELSE {1})
    /\ instructions \in _generate_instructions(mode, total_instructions, num_processes)
    /\ current_inst_idx = 0
    /\ current_time = 0
    /\ view_algo_name = "FIFO"
    /\ algos = reset_algos(memory_blocks)
    /\ last_op = "__init__"
    /\ ret = NoneRet

\* the first policy of the loop of step once process() has counted the
\* access and _handle_miss the miss
CountedMiss(a) ==
    [a EXCEPT !.total_count = @ + 1, !.miss_count = @ + 1, !.load_counter = @ + 1]

\* PageManager.step with instructions left on tables without a slot: the
\* first policy misses, finds no free slot, is given slot 0 by _get_victim
\* and raises IndexError at self.memory[target_idx]; the time and that
\* policy's counters have been raised by then, the cursor has not
StepIndexError ==
    /\ current_inst_idx < Len(instructions)
    /\ current_time < MaxTime
    /\ \E a \in {CountedMiss(algos[AlgoNames[1]])} :
          /\ \A i \in Slots(a) : Slot(a, i) # NoFrame
          /\ _get_victim(a, NoFuture).idx \notin Slots(a)
          /\ algos' = [algos EXCEPT ![AlgoNames[1]] = a]
    /\ current_time' = current_time + 1
    /\ ret' = [kind |-> "IndexError"]
    /\ last_op' = "step"
    /\ UNCHANGED <<memory_blocks, total_instructions, mode, num_processes,
                   instructions, current_inst_idx, view_algo_name>>

\* PageManager.step with instructions left on tables with at least one slot
StepInRange ==
    /\ Len(algos[AlgoNames[1]].memory) > 0
    /\ StepRun

NextAnyBlocks ==
    \/ StepInRange
    \/ StepIndexError
    \/ StepEnd
    \/ reset
    \/ load_belady_sequence
    \/ set_view_algorithm

SpecAnyBlocks == InitAnyBlocks /\ [][NextAnyBlocks]_vars

\* ------------------------------ single-process managers with longer traces
\* (address, op) pairs the single-process generator draws from, one for
\* each hot page 0..3
HotInsts == {<<0, "R">>, <<10, "W">>, <<20, "R">>, <<30, "R">>}

\* PageManager.__init__ in single-process mode with total_instructions =
\* LongTotal, the trace drawn from the hot pages
InitSingle ==
    /\ memory_blocks \in 1..LongBlocks
    /\ total_instructions = LongTotal
    /\ mode = "single"
    /\ num_processes = 1
    /\ instructions \in [1..total_instructions -> {<<i[1], i[2], None>> : i \in HotInsts}]
    /\ current_inst_idx = 0
    /\ current_time = 0
    /\ view_algo_name = "FIFO"
    /\ algos = reset_algos(memory_blocks)
    /\ last_op = "__init__"
    /\ ret = NoneRet

NextSingle == StepRun \/ StepEnd \/ load_belady_sequence

SpecSingle == InitSingle /\ [][NextSingle]_vars

\* ------------------------------------------- _interleave_sequences by itself
\* the num_processes _interleave_sequences is run with
InterleaveCounts == 1..3

\* a per-process sequence of the given length that _generate_process_sequence
\* can return: reads of the cold pages in ascending order, so that every
\* entry of a sequence differs from the others
ColdRun(length) == [k \in 1..length |-> <<(ColdBase + k - 1) * PageSize, "R">>]

\* the dicts of per-process sequences _interleave_sequences is handed
ProcessSequences(n) == [0..(n - 1) -> {ColdRun(length) : length \in 0..MaxSeqLen}]

\* a multi-process manager as _generate_multi_process_instructions leaves
\* it: every process has a sequence of the same length, and the trace is
\* the interleaving of these sequences, which are kept in ret
InitInterleave ==
    /\ memory_blocks = 1
    /\ total_instructions = TotalInstr
    /\ mode = "multi"
    /\ num_processes \in InterleaveCounts
    /\ \E length \in 1..MaxSeqLen :
          \E ps \in {[p \in 0..(num_processes - 1) |-> ColdRun(length)]} :
              /\ ret = [kind |-> "process_sequences", process_sequences |-> ps]
              /\ instructions = _interleave_sequences(ps, num_processes)
    /\ current_inst_idx = 0
    /\ current_time = 0
    /\ view_algo_name = "FIFO"
    /\ algos = reset_algos(memory_blocks)
    /\ last_op = "_interleave_sequences"

\* _interleave_sequences called with any dict of per-process sequences, of
\* equal lengths or not
interleave_again ==
    /\ \E ps \in ProcessSequences(num_processes) :
          /\ ret' = [kind |-> "process_sequences", process_sequences |-> ps]
          /\ instructions' = _interleave_sequences(ps, num_processes)
    /\ UNCHANGED <<memory_blocks, total_instructions, mode, num_processes,
                   current_inst_idx, current_time, view_algo_name, algos, last_op>>

NextInterleave == interleave_again

SpecInterleave == InitInterleave /\ [][NextInterleave]_vars

\* ------------------------------------------------------------------ C1
\* C1: in every reachable state each policy's total_count equals the step
\* cursor current_inst_idx, and its miss_count is at most its total_count.
C1_CountersFollowCursor ==
    \A name \in AlgoSet :
        /\ algos[name].total_count = current_inst_idx
        /\ algos[name].miss_count <= algos[name].total_count

\* steps taken on the fixture after earlier steps, with hits among them
C1_Witness ==
    /\ mode = "BELADY"
    /\ last_op = "step"
    /\ current_time > current_inst_idx
    /\ current_inst_idx >= 5
    /\ algos["LRU"].miss_count < algos["LRU"].total_count

\* ------------------------------------------------------------------ C2
\* C2: once the Belady fixture has been stepped to its end, FIFO has missed
\* exactly 9 times with 3 blocks and exactly 10 times with 4 blocks.
AtBeladyEnd ==
    /\ mode = "BELADY"
    /\ instructions = BeladyInstructions
    /\ last_op = "step"
    /\ ret = NoneRet

C2_BeladyAnomaly ==
    AtBeladyEnd =>
        /\ memory_blocks = 3 => algos["FIFO"].miss_count = 9
        /\ memory_blocks = 4 => algos["FIFO"].miss_count = 10

C2_Witness ==
    /\ AtBeladyEnd
    /\ memory_blocks = 4
    /\ algos["FIFO"].miss_count = 10

\* ------------------------------------------------------------------ C3
\* a step() call that consumed an instruction has just been made
StepTaken == last_op' = "step" /\ current_inst_idx' = current_inst_idx + 1

\* C3: in multi-process mode a policy reports a Hit for process A's access
\* to page p only if a frame owned by A holding p was resident in that
\* policy's table when the access was made.
C3_HitNeedsOwnFrame ==
    [][(StepTaken /\ mode = "multi") =>
        \A name \in AlgoSet :
            ret'.results[name].status = "Hit" =>
                \E i \in Occupied(algos[name]) :
                    /\ Slot(algos[name], i).page = ret'.page
                    /\ Slot(algos[name], i).pid = ret'.pid]_vars

\* a Miss reported while another process's frame with the same page number
\* is resident
C3_Witness ==
    /\ mode = "multi"
    /\ last_op = "step"
    /\ ret # NoneRet
    /\ \E name \in AlgoSet :
          /\ ret.results[name].status = "Miss"
          /\ \E i \in Occupied(algos[name]) :
                /\ Slot(algos[name], i).page = ret.page
                /\ Slot(algos[name], i).pid # ret.pid

\* ------------------------------------------------------------------ C4
\* C4: in every policy's table no two occupied slots hold the same frame
\* identity: the page in single-process mode, the (owner, page) pair in
\* multi-process mode.
C4_IdentityUnique ==
    \A name \in AlgoSet :
        \A i, j \in Occupied(algos[name]) :
            i # j =>
                IF mode = "multi"
                THEN <<Slot(algos[name], i).pid, Slot(algos[name], i).page>>
                     # <<Slot(algos[name], j).pid, Slot(algos[name], j).page>>
                ELSE Slot(algos[name], i).page # Slot(algos[name], j).page

\* two processes hold the same page number in one table, and a hit was made
C4_Witness ==
    /\ mode = "multi"
    /\ \E name \in AlgoSet :
          /\ algos[name].miss_count < algos[name].total_count
          /\ \E i, j \in Occupied(algos[name]) :
                /\ i # j
                /\ Slot(algos[name], i).page = Slot(algos[name], j).page

\* ------------------------------------------------------------------ C5
\* the slots of a policy whose occupant is replaced by the step being taken
EvictedSlots(name) ==
    {i \in Occupied(algos[name]) :
        \/ Slot(algos'[name], i).page # Slot(algos[name], i).page
        \/ Slot(algos'[name], i).pid # Slot(algos[name], i).pid}

\* C5: on each process() call of each policy, write_back_count goes up by
\* exactly 1 and is_write_back is reported true if and only if the call
\* evicts a frame that is dirty at that moment; otherwise write_back_count
\* is unchanged and is_write_back is false.
C5_WriteBackIffDirtyEviction ==
    [][StepTaken =>
        \A name \in AlgoSet :
            LET dirtyEviction ==
                    /\ ret'.results[name].status = "Miss"
                    /\ \E i \in EvictedSlots(name) : Slot(algos[name], i).dirty
            IN  /\ ret'.results[name].is_write_back = dirtyEviction
                /\ algos'[name].write_back_count =
                       algos[name].write_back_count + (IF dirtyEviction THEN 1 ELSE 0)
                /\ ret'.results[name].wb_count = algos'[name].write_back_count]_vars

\* a write-back has been reported by one policy while another one evicted a
\* clean frame at the same step
C5_Witness ==
    /\ last_op = "step"
    /\ ret # NoneRet
    /\ \E n1, n2 \in AlgoSet :
          /\ ret.results[n1].is_write_back
          /\ ret.results[n2].swapped # None
          /\ ~ret.results[n2].is_write_back

\* ------------------------------------------------------------------ C6
\* a step() call has just been made: set_view_algorithm, the only other
\* operation that leaves last_op as it is, always changes the viewed policy
StepCalled == last_op' = "step" /\ view_algo_name' = view_algo_name

\* C6: step() called with the cursor at the end of the trace returns None
\* and changes neither the cursor, the time, the trace nor any policy.
C6_EndOfTraceIsInert ==
    [][(StepCalled /\ current_inst_idx >= Len(instructions)) =>
        /\ ret' = NoneRet
        /\ UNCHANGED <<current_inst_idx, current_time, instructions, algos, mode,
                       memory_blocks, view_algo_name>>]_vars

C6_Witness ==
    /\ last_op = "step"
    /\ ret = NoneRet
    /\ current_inst_idx = Len(instructions)
    /\ current_inst_idx > 0

\* ------------------------------------------------------------------ C7
\* C7: reset() called after the Belady fixture was loaded leaves the
\* fixture as the trace.
C7_ResetReloadsFixture ==
    (mode = "BELADY" /\ last_op = "reset") => instructions = BeladyInstructions

\* ------------------------------------------------------------------ C8
\* the policies after k steps of the fixture replayed by a manager that was
\* constructed with blocks memory blocks and had the fixture loaded at time 0
RECURSIVE FreshReplay(_, _)
FreshReplay(blocks, k) ==
    IF k = 0 THEN reset_algos(blocks)
    ELSE StepBody(BeladyInstructions, k - 1, k - 1,
                  FreshReplay(blocks, k - 1), "FIFO").algos

\* the report of step k of that replay when the policy named view is viewed
FreshReport(blocks, k, view) ==
    StepBody(BeladyInstructions, k - 1, k - 1, FreshReplay(blocks, k - 1), view).report

\* C8: every report of a replay of the fixture, whatever was done before the
\* fixture was loaded and whatever the time counter had reached, is the
\* report a fresh replay gives at that step for the same capacity and
\* viewed policy.
C8_ReplayIsRestartable ==
    (mode = "BELADY" /\ instructions = BeladyInstructions /\ ret # NoneRet) =>
        ret = FreshReport(memory_blocks, ret.current_step, ret.view_algo)

\* a report of a replay that was started after earlier steps, showing a
\* frame of LRU that has been idle
C8_Witness ==
    /\ mode = "BELADY"
    /\ instructions = BeladyInstructions
    /\ ret # NoneRet
    /\ current_time > current_inst_idx
    /\ ret.view_algo = "LRU"
    /\ \E k \in 1..memory_blocks :
          /\ ret.memory[k] # NoFrame
          /\ ret.memory[k].meta.tag = "IDLE"
          /\ ret.memory[k].meta.val > 0

\* ------------------------------------------------------------------ C9
\* a trace has just been generated in random mode
FreshRandomTrace ==
    /\ last_op \in {"__init__", "reset"}
    /\ mode \in {"single", "multi"}

\* C9 as claimed: a trace generated in random mode has exactly
\* total_instructions entries, in single- and in multi-process mode.
C9_TraceHasConfiguredLength ==
    FreshRandomTrace => Len(instructions) = total_instructions

\* C9 as amended: a trace generated in single-process mode has exactly
\* total_instructions entries; one generated in multi-process mode has
\* num_processes * max(MinProcLen, total_instructions // num_processes).
C9_TraceLengthByMode ==
    FreshRandomTrace =>
        Len(instructions) =
            IF mode = "multi"
            THEN num_processes
                 * Max(MinProcLen, FloorDiv(total_instructions, num_processes))
            ELSE total_instructions

\* a multi-process trace regenerated by reset() that is longer than configured
C9_Witness ==
    /\ last_op = "reset"
    /\ mode = "multi"
    /\ num_processes > 1
    /\ Len(instructions) > total_instructions

\* ----------------------------------------------------------------- C10
\* C10: whichever policy is viewed at a step, the step leaves the same
\* slots, counters and clock hand in every policy and reports the same
\* instruction, per-policy results and step count; only the memory
\* snapshot, next_victim and view_algo of the report depend on the view.
C10_ViewIsPureSelection ==
    [][StepTaken =>
        \A view \in AlgoSet :
            \E o \in {StepOutcome(view)} :
                /\ o.algos = algos'
                /\ o.report.results = ret'.results
                /\ o.report.inst = ret'.inst
                /\ o.report.op = ret'.op
                /\ o.report.page = ret'.page
                /\ o.report.pid = ret'.pid
                /\ o.report.current_step = ret'.current_step]_vars

\* a step reported while Clock was viewed, its table full and every
\* reference bit set, after the view had been changed
C10_Witness ==
    /\ last_op = "step"
    /\ ret # NoneRet
    /\ ret.view_algo = "LINUX"
    /\ ret.next_victim # -1
    /\ memory_blocks > 1
    /\ \A i \in Slots(algos["LINUX"]) : Slot(algos["LINUX"], i).ref_bit = 1

\* ----------------------------------------------------------------- C11
\* the lookaheads predict_next_victim can be handed in the current state:
\* None, or the pages of the trace from the cursor on
PredictLookaheads == {NoFuture, FuturePages(instructions, current_inst_idx)}

\* C11: in every reachable state, for every policy (Clock included) and
\* every lookahead, predict_next_victim leaves the policy as it was: every
\* frame's ref_bit, dirty and active flags, last_access and loaded_at, the
\* clock hand and all counters.
C11_PredictIsReadOnly ==
    \A name \in AlgoSet :
        \A fp \in PredictLookaheads :
            predict_next_victim(algos[name], fp).algo = algos[name]

\* a full Clock table whose hand points at a frame with its reference bit
\* set while another frame has it cleared: the real scan would clear the
\* bit and move the hand
C11_Witness ==
    /\ \A i \in Slots(algos["LINUX"]) : Slot(algos["LINUX"], i) # NoFrame
    /\ Slot(algos["LINUX"], algos["LINUX"].clock_hand).ref_bit = 1
    /\ \E i \in Slots(algos["LINUX"]) : Slot(algos["LINUX"], i).ref_bit = 0

\* ----------------------------------------------------------------- C12
\* the step being taken follows a step whose report is still in ret
StepAfterReport ==
    /\ StepTaken
    /\ last_op = "step"
    /\ ret # NoneRet
    /\ ret.current_step = current_inst_idx

\* C12: if the report of a step gives a predicted victim slot v (not -1)
\* for the policy viewed at that step, and the next step is a miss for that
\* policy, then the frame evicted by the next step is the frame that was in
\* slot v after the first one.
C12_PredictionIsNextVictim ==
    [][(/\ StepAfterReport
        /\ ret.next_victim # -1
        /\ ret'.results[ret.view_algo].status = "Miss") =>
            /\ ret'.results[ret.view_algo].swapped
                   = Slot(algos[ret.view_algo], ret.next_victim).page
            /\ ret'.results[ret.view_algo].swapped_pid
                   = Slot(algos[ret.view_algo], ret.next_victim).pid
            /\ EvictedSlots(ret.view_algo) = {ret.next_victim}]_vars

\* ----------------------------------------------------------------- C13
\* C13: no manager is ever built whose policies have a frame table without
\* a slot (construction with memory_blocks below 1 is rejected), so that
\* step() never runs against such a table.
C13_ZeroCapacityIsRejected ==
    /\ memory_blocks >= 1
    /\ \A name \in AlgoSet : Len(algos[name].memory) >= 1

\* ----------------------------------------------------------------- C14
\* a miss of the policy would call the victim rule (no slot is free) and
\* the rule would find no occupied slot
NothingToEvict(a) ==
    /\ \A i \in Slots(a) : Slot(a, i) # NoFrame
    /\ Occupied(a) = {}

\* C14: a victim rule that finds no occupied slot, and OPT's rule called
\* on a full table without a lookahead, end in an error and return no slot
\* index.
C14_VictimRuleFailsLoudly ==
    \A name \in AlgoSet :
        /\ NothingToEvict(algos[name]) =>
               \A fp \in PredictLookaheads :
                   _get_victim(algos[name], fp).idx \notin Nat
        /\ (name = "OPT" /\ Occupied(algos[name]) = Slots(algos[name])) =>
               _get_victim(algos[name], NoFuture).idx \notin Nat

\* ----------------------------------------------------------------- C15
\* the frame in slot i of a policy is still the same frame after the step
SameFrame(name, i) ==
    IF Slot(algos[name], i) = NoFrame
    THEN Slot(algos'[name], i) = NoFrame
    ELSE /\ Slot(algos'[name], i) # NoFrame
         /\ Slot(algos'[name], i).page = Slot(algos[name], i).page
         /\ Slot(algos'[name], i).pid = Slot(algos[name], i).pid
         /\ Slot(algos'[name], i).loaded_at = Slot(algos[name], i).loaded_at

\* the empty slots of a policy's table
FreeSlots(a) == Slots(a) \ Occupied(a)

\* C15: for every policy, a miss reports an evicted page only if every slot
\* was occupied before the access; if a slot was empty, the new frame is
\* placed in the lowest empty slot and every other slot keeps what it held.
C15_FreeSlotsFirst ==
    [][StepTaken =>
        \A name \in AlgoSet :
            /\ ret'.results[name].swapped # None => FreeSlots(algos[name]) = {}
            /\ (ret'.results[name].status = "Miss" /\ FreeSlots(algos[name]) # {}) =>
                  /\ ret'.results[name].swapped = None
                  /\ ret'.results[name].swapped_pid = None
                  /\ Slot(algos'[name], Least(FreeSlots(algos[name]))) # NoFrame
                  /\ Slot(algos'[name], Least(FreeSlots(algos[name]))).page = ret'.page
                  /\ Slot(algos'[name], Least(FreeSlots(algos[name]))).pid = ret'.pid
                  /\ \A i \in Slots(algos[name]) \ {Least(FreeSlots(algos[name]))} :
                        SameFrame(name, i)]_vars

\* a miss that evicted nothing and filled the third slot of a table that
\* still has a free one
C15_Witness ==
    /\ last_op = "step"
    /\ ret # NoneRet
    /\ \E name \in AlgoSet :
          /\ ret.results[name].status = "Miss"
          /\ ret.results[name].swapped = None
          /\ Cardinality(Occupied(algos[name])) = 3
          /\ FreeSlots(algos[name]) # {}
          /\ Slot(algos[name], 2).page = ret.page

\* ----------------------------------------------------------------- C16
\* the slot a policy loads the accessed page into at the step being taken
\* (the step is a miss of that policy)
LoadedSlot(name) ==
    CHOOSE i \in Slots(algos[name]) :
        /\ Slot(algos'[name], i) # NoFrame
        /\ Slot(algos'[name], i).page = ret'.page
        /\ Slot(algos'[name], i).pid = ret'.pid

\* C16: the loaded_at a FIFO miss gives the frame it loads is greater than
\* every loaded_at given before (it is the policy's load counter, so no two frames
\* share one), and a FIFO miss that evicts replaces the resident frame with
\* the least loaded_at.
C16_FifoEvictsEarliestLoaded ==
    [][(StepTaken /\ ret'.results["FIFO"].status = "Miss") =>
        /\ Slot(algos'["FIFO"], LoadedSlot("FIFO")).loaded_at
               = algos["FIFO"].load_counter + 1
        /\ algos'["FIFO"].load_counter = algos["FIFO"].load_counter + 1
        /\ \A i \in Occupied(algos["FIFO"]) :
               Slot(algos["FIFO"], i).loaded_at <= algos["FIFO"].load_counter
        /\ \A i, j \in Occupied(algos'["FIFO"]) :
               i # j => Slot(algos'["FIFO"], i).loaded_at
                            # Slot(algos'["FIFO"], j).loaded_at
        /\ ret'.results["FIFO"].swapped # None =>
               /\ EvictedSlots("FIFO") = {LoadedSlot("FIFO")}
               /\ \A j \in Occupied(algos["FIFO"]) :
                      Slot(algos["FIFO"], LoadedSlot("FIFO")).loaded_at
                          <= Slot(algos["FIFO"], j).loaded_at]_vars

\* FIFO has evicted a page that LRU, having seen it hit, kept at that step
C16_Witness ==
    /\ last_op = "step"
    /\ ret # NoneRet
    /\ ret.results["FIFO"].swapped # None
    /\ ret.results["LRU"].swapped # None
    /\ ret.results["FIFO"].swapped # ret.results["LRU"].swapped
    /\ \E i \in Occupied(algos["LRU"]) :
          Slot(algos["LRU"], i).page = ret.results["FIFO"].swapped

\* ----------------------------------------------------------------- C17
\* C17: the last_access of a frame of LRU is the time of its latest hit or
\* of its load, and an LRU miss that evicts replaces the frame with the
\* least last_access of all occupied slots.
C17_LruEvictsLeastRecentlyUsed ==
    [][StepTaken =>
        /\ Slot(algos'["LRU"], LoadedSlot("LRU")).last_access = current_time'
        /\ \A i \in Occupied(algos["LRU"]) \ {LoadedSlot("LRU")} :
               Slot(algos'["LRU"], i).last_access = Slot(algos["LRU"], i).last_access
        /\ ret'.results["LRU"].swapped # None =>
               /\ EvictedSlots("LRU") = {LoadedSlot("LRU")}
               /\ \A j \in Occupied(algos["LRU"]) :
                      Slot(algos["LRU"], LoadedSlot("LRU")).last_access
                          <= Slot(algos["LRU"], j).last_access]_vars

\* LRU has evicted a page that was not the first loaded: FIFO evicted
\* another one at that step and still holds LRU's victim
C17_Witness ==
    /\ last_op = "step"
    /\ ret # NoneRet
    /\ ret.results["LRU"].swapped # None
    /\ ret.results["FIFO"].swapped # None
    /\ ret.results["FIFO"].swapped # ret.results["LRU"].swapped
    /\ \E i \in Occupied(algos["FIFO"]) :
          /\ Slot(algos["FIFO"], i).page = ret.results["LRU"].swapped
          /\ Slot(algos["FIFO"], i).pid = ret.results["LRU"].swapped_pid

\* ----------------------------------------------------------------- C18
\* the page numbers of the trace after the instruction at index i (0-based)
TraceAfter(i) ==
    [k \in 1..(Len(instructions) - (i + 1)) |-> instructions[i + 1 + k][1] \div PageSize]

\* how far away the next use of page p is in the sequence s: the index of
\* its first occurrence, or the length of s if it does not occur
NextUse(s, p) ==
    IF \E k \in 1..Len(s) : s[k] = p
    THEN Least({k \in 1..Len(s) : s[k] = p}) - 1
    ELSE Len(s)

\* C18: when step() processes trace index i and OPT evicts, the frame
\* replaced is the one whose page is used next latest in the pages of
\* trace[i+1:], a page that does not occur there counting as later than any
\* that does, and the lowest slot among equals: every other resident page
\* is used next no later than the victim's.
C18_OptEvictsFarthestNextUse ==
    [][(StepTaken /\ ret'.results["OPT"].swapped # None) =>
        /\ EvictedSlots("OPT") = {LoadedSlot("OPT")}
        /\ \A j \in Occupied(algos["OPT"]) :
               \/ NextUse(TraceAfter(current_inst_idx), Slot(algos["OPT"], j).page)
                    < NextUse(TraceAfter(current_inst_idx),
                              Slot(algos["OPT"], LoadedSlot("OPT")).page)
               \/ /\ NextUse(TraceAfter(current_inst_idx), Slot(algos["OPT"], j).page)
                       = NextUse(TraceAfter(current_inst_idx),
                                 Slot(algos["OPT"], LoadedSlot("OPT")).page)
                  /\ LoadedSlot("OPT") <= j]_vars

\* OPT has evicted a page that is used again later in the trace, from a
\* table of several frames, while LRU evicted another page
C18_Witness ==
    /\ last_op = "step"
    /\ ret # NoneRet
    /\ memory_blocks >= 2
    /\ ret.results["OPT"].swapped # None
    /\ ret.results["LRU"].swapped # ret.results["OPT"].swapped
    /\ \E k \in (current_inst_idx + 1)..Len(instructions) :
          instructions[k][1] \div PageSize = ret.results["OPT"].swapped

\* ----------------------------------------------------------------- C19
\* how many slots after the hand slot i is, going round the table
Ahead(a, i) == (i - a.clock_hand + a.memory_blocks) % a.memory_blocks

\* the slots of a full Clock table whose reference bit is clear
Unreferenced(a) == {i \in Slots(a) : Slot(a, i).ref_bit = 0}

\* the slots the hand passes over before it stops: those between the hand
\* and the first slot with a clear bit, or the whole table if no bit is clear
PassedOver(a) ==
    IF Unreferenced(a) = {} THEN Slots(a)
    ELSE {i \in Slots(a) : \A z \in Unreferenced(a) : Ahead(a, i) < Ahead(a, z)}

\* the slot the hand stops at: the first slot from the hand on with a clear
\* bit, or the hand's own slot after a full lap if no bit is clear
ScanStop(a) ==
    IF Unreferenced(a) = {} THEN a.clock_hand
    ELSE CHOOSE z \in Unreferenced(a) : \A y \in Unreferenced(a) : Ahead(a, z) <= Ahead(a, y)

\* C19: at every Clock eviction the scan returns from inside its loop of
\* 2 * memory_blocks + 1 rounds, the slot it returns has its ref_bit at 0
\* then and is the slot evicted, and every slot the hand passed over, and
\* none but these, has had its ref_bit cleared.
C19_ClockScanSelects ==
    [][(StepTaken /\ ret'.results["LINUX"].swapped # None) =>
        \E r \in {_run_clock_algorithm(algos["LINUX"], FALSE)} :
            /\ r.found
            /\ Slot(r.algo, r.idx).ref_bit = 0
            /\ r.idx = ScanStop(algos["LINUX"])
            /\ \A i \in PassedOver(algos["LINUX"]) : Slot(r.algo, i).ref_bit = 0
            /\ EvictedSlots("LINUX") = {r.idx}
            /\ \A i \in Slots(algos["LINUX"]) \ {r.idx} :
                   Slot(algos'["LINUX"], i).ref_bit =
                       IF i \in PassedOver(algos["LINUX"])
                       THEN 0
                       ELSE Slot(algos["LINUX"], i).ref_bit]_vars

\* a Clock eviction for which the hand went all the way round a table of at
\* least three frames: every frame but the one just loaded has a clear bit
C19_Witness ==
    /\ last_op = "step"
    /\ ret # NoneRet
    /\ memory_blocks >= 3
    /\ ret.results["LINUX"].swapped # None
    /\ Cardinality(Unreferenced(algos["LINUX"])) = memory_blocks - 1

\* ----------------------------------------------------------------- C20
\* C20: in every reachable state in which Clock's table is full, the slot
\* predict_next_victim returns (read-only loop of 2 * memory_blocks rounds)
\* is the slot _run_clock_algorithm (clearing loop of 2 * memory_blocks + 1
\* rounds) would return from that state.
C20_PredictionAgreesWithScan ==
    FreeSlots(algos["LINUX"]) = {} =>
        predict_next_victim(algos["LINUX"], NoFuture).idx
            = _run_clock_algorithm(algos["LINUX"], FALSE).idx

\* a full Clock table of several frames, every reference bit set and the
\* hand away from slot 0: the read-only loop runs to its bound
C20_Witness ==
    /\ memory_blocks >= 2
    /\ FreeSlots(algos["LINUX"]) = {}
    /\ Unreferenced(algos["LINUX"]) = {}
    /\ algos["LINUX"].clock_hand # 0

\* ----------------------------------------------------------------- C21
\* the slots of a policy whose frame is on the active list
ActiveSlots(a) == {i \in Occupied(a) : Slot(a, i).is_active_list}

\* C21: in every reachable state, after a hit and its rebalance in
\* particular, at most memory_blocks // 2 frames of LINUX_NG have the
\* active flag set.
C21_ActiveListIsBounded ==
    Cardinality(ActiveSlots(algos["LINUX_NG"])) <= memory_blocks \div 2

\* a hit of LINUX_NG in a table of several frames that left the frame hit
\* on the active list and the list at its limit
C21_Witness ==
    /\ last_op = "step"
    /\ ret # NoneRet
    /\ memory_blocks >= 2
    /\ ret.results["LINUX_NG"].status = "Hit"
    /\ Cardinality(ActiveSlots(algos["LINUX_NG"])) = memory_blocks \div 2
    /\ \E i \in ActiveSlots(algos["LINUX_NG"]) :
          /\ Slot(algos["LINUX_NG"], i).page = ret.page
          /\ Slot(algos["LINUX_NG"], i).last_access = current_time

\* ----------------------------------------------------------------- C22
\* the slots of a policy whose frame is on the inactive list
InactiveSlots(a) == Occupied(a) \ ActiveSlots(a)

\* C22: a full table of LINUX_NG always holds an inactive frame, and every
\* eviction of LINUX_NG replaces an inactive frame, the one with the least
\* last_access of the inactive frames: no active frame is ever evicted.
C22_TwoListEvictsInactive ==
    [][/\ FreeSlots(algos'["LINUX_NG"]) = {} => InactiveSlots(algos'["LINUX_NG"]) # {}
       /\ (StepTaken /\ ret'.results["LINUX_NG"].swapped # None) =>
             /\ EvictedSlots("LINUX_NG") = {LoadedSlot("LINUX_NG")}
             /\ LoadedSlot("LINUX_NG") \in InactiveSlots(algos["LINUX_NG"])
             /\ \A j \in InactiveSlots(algos["LINUX_NG"]) :
                    Slot(algos["LINUX_NG"], LoadedSlot("LINUX_NG")).last_access
                        <= Slot(algos["LINUX_NG"], j).last_access]_vars

\* LINUX_NG has evicted a frame although an active frame, still resident,
\* has been unused for longer than any other
C22_Witness ==
    /\ last_op = "step"
    /\ ret # NoneRet
    /\ ret.results["LINUX_NG"].swapped # None
    /\ \E i \in ActiveSlots(algos["LINUX_NG"]) :
          \A j \in Occupied(algos["LINUX_NG"]) :
              Slot(algos["LINUX_NG"], i).last_access <= Slot(algos["LINUX_NG"], j).last_access

\* ----------------------------------------------------------------- C23
\* C23: when a step is a hit of a policy, the policy reports Hit with no
\* evicted page and no write-back; its miss_count, write_back_count,
\* load_counter and clock_hand are as before and total_count is one more;
\* every slot holds the page and owner it held; and apart from the frame
\* hit, a frame changes at most by being taken off the active list.
C23_HitKeepsTheTable ==
    [][StepTaken =>
        \A name \in AlgoSet :
            ret'.results[name].status = "Hit" =>
                /\ ret'.results[name].swapped = None
                /\ ret'.results[name].swapped_pid = None
                /\ ~ret'.results[name].is_write_back
                /\ algos'[name].miss_count = algos[name].miss_count
                /\ algos'[name].write_back_count = algos[name].write_back_count
                /\ algos'[name].load_counter = algos[name].load_counter
                /\ algos'[name].clock_hand = algos[name].clock_hand
                /\ algos'[name].total_count = algos[name].total_count + 1
                /\ \A i \in Slots(algos[name]) : SameFrame(name, i)
                /\ \A i \in Occupied(algos[name]) \ {LoadedSlot(name)} :
                      \/ Slot(algos'[name], i) = Slot(algos[name], i)
                      \/ /\ name = "LINUX_NG"
                         /\ Slot(algos[name], i).is_active_list
                         /\ Slot(algos'[name], i)
                                = [Slot(algos[name], i) EXCEPT !.is_active_list = FALSE]]_vars

\* a step that was a hit of one policy and an eviction of another
C23_Witness ==
    /\ last_op = "step"
    /\ ret # NoneRet
    /\ \E n1, n2 \in AlgoSet :
          /\ ret.results[n1].status = "Hit"
          /\ ret.results[n2].swapped # None

\* ----------------------------------------------------------------- C24
\* C24: at every step of every policy the frame accessed is dirty
\* afterwards exactly if the access is a write or, the access being a hit,
\* the frame was dirty before; every other resident frame keeps its flag.
\* So a frame is dirty exactly if a write has touched it since it was
\* loaded, and a frame that replaces another starts dirty only if it is
\* loaded by a write.
C24_DirtyIffWrittenSinceLoad ==
    [][StepTaken =>
        \A name \in AlgoSet :
            /\ Slot(algos'[name], LoadedSlot(name)).dirty =
                   (\/ ret'.op = "W"
                    \/ /\ ret'.results[name].status = "Hit"
                       /\ Slot(algos[name], LoadedSlot(name)).dirty)
            /\ \A i \in Occupied(algos[name]) \ {LoadedSlot(name)} :
                   Slot(algos'[name], i).dirty = Slot(algos[name], i).dirty]_vars

\* a read that hit a dirty frame and left it dirty
C24_Witness ==
    /\ last_op = "step"
    /\ ret # NoneRet
    /\ ret.op = "R"
    /\ \E name \in AlgoSet :
          /\ ret.results[name].status = "Hit"
          /\ \E i \in Occupied(algos[name]) :
                /\ Slot(algos[name], i).page = ret.page
                /\ Slot(algos[name], i).pid = ret.pid
                /\ Slot(algos[name], i).dirty

\* ----------------------------------------------------------------- C25
\* how many entries of its own process precede entry i of the trace T
OwnRank(T, i) == Cardinality({j \in 1..(i - 1) : T[j][3] = T[i][3]})

\* the place of entry i of T in the schedule: its cycle, its process and
\* its position in the process's own sequence
Place(T, i) == <<OwnRank(T, i) \div burst_size, T[i][3], OwnRank(T, i)>>

\* lexicographic order of places
Earlier(x, y) ==
    \/ x[1] < y[1]
    \/ x[1] = y[1] /\ x[2] < y[2]
    \/ x[1] = y[1] /\ x[2] = y[2] /\ x[3] < y[3]

RECURSIVE SumOfLengths(_, _)
SumOfLengths(ps, n) ==
    IF n = 0 THEN 0 ELSE Len(ps[n - 1]) + SumOfLengths(ps, n - 1)

\* C25: the interleaved trace holds as many entries as the per-process
\* sequences together; the entries it holds of a process are the entries of
\* that process's sequence, each once and in their order, tagged with the
\* process; and it runs cycle by cycle, within a cycle process by process
\* in ascending order, each process giving its next entries, at most
\* burst_size of them in a cycle.
C25_InterleaveIsRoundRobin ==
    /\ Len(instructions) = SumOfLengths(ret.process_sequences, num_processes)
    /\ \A p \in 0..(num_processes - 1) :
           Cardinality({i \in 1..Len(instructions) : instructions[i][3] = p})
               = Len(ret.process_sequences[p])
    /\ \A i \in 1..Len(instructions) :
           /\ instructions[i][3] \in 0..(num_processes - 1)
           /\ OwnRank(instructions, i) < Len(ret.process_sequences[instructions[i][3]])
           /\ <<instructions[i][1], instructions[i][2]>>
                  = ret.process_sequences[instructions[i][3]][OwnRank(instructions, i) + 1]
    /\ \A i \in 1..(Len(instructions) - 1) :
           Earlier(Place(instructions, i), Place(instructions, i + 1))

\* three processes with sequences of different lengths, one longer than a
\* time slice and one shorter: the trace runs over two cycles
C25_Witness ==
    /\ num_processes = 3
    /\ Len(ret.process_sequences[0]) > burst_size
    /\ Len(ret.process_sequences[1]) = burst_size
    /\ Len(ret.process_sequences[2]) \in 1..(burst_size - 1)
    /\ Len(instructions) > 2 * burst_size

\* ----------------------------------------------------------------- C26
\* C26: in every reachable state the last_access of every resident frame is
\* at most the step count the manager reports (the step cursor).
C26_LastAccessWithinStepCount ==
    \A name \in AlgoSet :
        \A i \in Occupied(algos[name]) :
            Slot(algos[name], i).last_access <= current_inst_idx

\* ----------------------------------------------------------------- C27
\* C27: in single-process mode (every owner None), after any number of
\* steps of any trace and for any capacity, OPT has missed no more often
\* than FIFO, LRU, LINUX or LINUX_NG on the same prefix.
C27_OptMissesLeast ==
    (\A k \in 1..Len(instructions) : instructions[k][3] = None) =>
        \A name \in AlgoSet :
            algos["OPT"].miss_count <= algos[name].miss_count

\* a trace replayed to its end in a table of several frames on which OPT
\* missed less often than each of the other four policies
C27_Witness ==
    /\ memory_blocks >= 2
    /\ current_inst_idx = Len(instructions)
    /\ \A k \in 1..Len(instructions) : instructions[k][3] = None
    /\ \A name \in AlgoSet \ {"OPT"} :
          algos["OPT"].miss_count < algos[name].miss_count

\* ----------------------------------------------------------------- C28
\* the slots 0..k-1 for k = min(miss_count, capacity)
FilledPrefix(a) == 0 .. (Min(a.miss_count, a.memory_blocks) - 1)

\* the misses of a policy that found no free slot: miss_count - k
MissesBeyondCapacity(a) == a.miss_count - Min(a.miss_count, a.memory_blocks)

\* the occupied slots of every policy are the slots 0..k-1
SlotsArePrefix ==
    \A name \in AlgoSet : Occupied(algos[name]) = FilledPrefix(algos[name])

\* what one transition does to the table of the policy called name: a step
\* keeps every filled slot filled, fills at most the next slot in index
\* order, and evicts exactly when it raises miss_count - k by one; anything
\* else that changes the table is a re-initialisation to the empty table
TableChange(name) ==
    /\ StepTaken =>
          /\ Occupied(algos[name]) \subseteq Occupied(algos'[name])
          /\ Occupied(algos'[name]) \ Occupied(algos[name])
                 \subseteq {Cardinality(Occupied(algos[name]))}
          /\ MissesBeyondCapacity(algos'[name]) =
                 MissesBeyondCapacity(algos[name])
                     + (IF EvictedSlots(name) # {} THEN 1 ELSE 0)
          /\ (ret'.results[name].swapped # None) = (EvictedSlots(name) # {})
    /\ (~StepTaken /\ algos'[name] # algos[name]) =>
          /\ last_op' \in {"reset", "load_belady_sequence"}
          /\ algos'[name] = AlgoInit(name, memory_blocks)

\* C28: for every policy in every reachable state the occupied slots are
\* exactly the indices 0..k-1 with k = min(miss_count, capacity); slots are
\* filled in ascending index order, a filled slot becomes empty again only
\* through reset() or load_belady_sequence(), and the evictions made so far
\* number miss_count - k (every step evicts exactly when it raises
\* miss_count - k, which is 0 after construction and re-initialisation).
C28_SlotsFillInOrder ==
    /\ []SlotsArePrefix
    /\ [][\A name \in AlgoSet : TableChange(name)]_vars

\* a step at which a policy with several frames has evicted for at least
\* the second time while the viewed table was filled slot by slot before
C28_Witness ==
    /\ last_op = "step"
    /\ ret # NoneRet
    /\ memory_blocks >= 2
    /\ \E name \in AlgoSet :
          /\ ret.results[name].swapped # None
          /\ MissesBeyondCapacity(algos[name]) >= 2
          /\ Occupied(algos[name]) = Slots(algos[name])

====
